---- MODULE Spec2Model ----
(***************************************************************************)
(* Model of the research orchestration loop (src/agents/research_agent.py) *)
(* and of the session progress service (src/services/websocket_service.py).*)
(*                                                                         *)
(* SpecAgent    : one run of DeepResearchAgent.research_person.            *)
(* SpecValidate : _validate_results applied to results of every shape.     *)
(* SpecWS       : the WebSocketService registry, the background run of a   *)
(*                session and the administrative calls.                    *)
(* SpecRun      : SpecWS without update_progress calls.                    *)
(* SpecQuery    : the registry with the progress route and cleanup.        *)
(* SpecAdmin    : the registry with the complete and error routes.         *)
(* SpecTwo      : two sessions started concurrently.                       *)
(* SpecRooms    : clients connecting, joining and leaving Socket.IO rooms. *)
(* SpecLive     : SpecWS with the background threads scheduled fairly.     *)
(***************************************************************************)
EXTENDS Integers, Sequences, FiniteSets, TLC

(***************************************************************************)
(* Bounds of the model.                                                    *)
(***************************************************************************)
\* longest hit list the search provider returns in one call
MaxHits == 2
\* number of administrative calls (update_progress, complete_research,
\* error_research, cleanup_session) that find their session in the registry
MaxAdminCalls == 2
\* the same, in the specification with clients
MaxRoomAdminCalls == 1
\* the same, in the specification with two concurrent sessions
MaxTwoAdminCalls == 1

(***************************************************************************)
(* Python values.  A dict entry is a tagged value; "absent" stands for a   *)
(* key that is not in the dict, "none" for None.                           *)
(***************************************************************************)
Absent == [tag |-> "absent", str |-> "", items |-> {}]
NoneV == [tag |-> "none", str |-> "", items |-> {}]
Str(s) == [tag |-> "str", str |-> s, items |-> {}]
List(S) == [tag |-> "list", str |-> "", items |-> S]

\* Python truthiness of a dict entry (`field in results and results[field]`)
Truthy(v) == \/ v.tag = "str" /\ v.str # ""
             \/ v.tag = "list" /\ v.items # {}

\* str.lower() on the strings the model uses
Lower(s) ==
  CASE s = "Microsoft" -> "microsoft"
    [] s = "Google" -> "google"
    [] s = "Amazon" -> "amazon"
    [] s = "IBM" -> "ibm"
    [] s = "Oracle" -> "oracle"
    [] s = "Salesforce" -> "salesforce"
    [] s = "Alpha Pro Tech" -> "alpha pro tech"
    [] s = "Acme" -> "acme"
    [] OTHER -> s

(***************************************************************************)
(* DeepResearchAgent                                                       *)
(***************************************************************************)
required_fields ==
  <<"company_value_prop", "product_names", "pricing_model",
    "key_competitors", "company_domain">>

Fields == {required_fields[i] : i \in 1..Len(required_fields)}

max_iterations == 3

\* company.name of the resolved company; NoName is a NULL name column
NoName == "<null>"
CompanyNames == {"Acme", "Alpha Pro Tech", "IBM", NoName}

\* A search hit: the snippet is represented by what the extraction helpers
\* read from it: the sentence matched by the value-proposition patterns
\* ("" when none matches) and the lower-cased keywords the text contains.
SampleHits ==
  { [vp |-> "", kw |-> {}, url |-> "https://example.com"],
    [vp |-> "Acme provides cloud software.", kw |-> {"cloud", "software"},
     url |-> "https://acme.com/about"],
    [vp |-> "", kw |-> {"subscription", "ibm"}, url |-> "https://acme.com/pricing"],
    [vp |-> "Acme offers consulting.", kw |-> {"consulting", "freemium", "microsoft"},
     url |-> "https://acme.com/vs"] }

SearchResults == UNION {[1..n -> SampleHits] : n \in 0..MaxHits}

mock_results ==
  [alpha |->
     [company_value_prop |-> Str("Alpha Pro Tech Ltd. specializes in PPE."),
      product_names |-> List({"Disposable Protective Masks", "Surgical Gowns", "Coveralls"}),
      pricing_model |-> Str("Alpha Pro Tech employs competitive pricing strategies."),
      key_competitors |-> List({"3M Company", "Kimberly-Clark", "Cardinal Health"}),
      company_domain |-> Str("alpha.com")],
   techcorp |->
     [company_value_prop |-> Str("TechCorp Solutions provides innovative technology solutions."),
      product_names |-> List({"Enterprise Software", "Cloud Solutions", "IT Consulting"}),
      pricing_model |-> Str("TechCorp uses a subscription-based pricing model."),
      key_competitors |-> List({"Microsoft", "IBM", "Oracle"}),
      company_domain |-> Str("techcorp.com")]]

EmptyDict == [f \in Fields |-> Absent]

\* the test without the company domain
_all_fields_found_ButDomain(res) ==
  \A i \in 1..(Len(required_fields) - 1) : Truthy(res[required_fields[i]])

_all_fields_found(res) ==
  \A i \in 1..Len(required_fields) : Truthy(res[required_fields[i]])

_get_missing_fields(res) == {f \in Fields : ~Truthy(res[f])}

\* list(results.keys())
Keys(res) == {f \in Fields : res[f].tag # "absent"}

\* the loop copies nothing
_validate_results_Identity(res) == res

\* _validate_results: the copy holds the required fields that are in `res`
\* with a truthy value; every other key of `res` is not in the copy
_validate_results(res) ==
  [k \in DOMAIN res |-> IF k \in Fields /\ Truthy(res[k]) THEN res[k] ELSE Absent]

\* _extract_value_prop: the matched sentence, or None
_extract_value_prop(hit) == IF hit.vp # "" THEN Str(hit.vp) ELSE NoneV

_extract_products(hit) ==
  (IF "software" \in hit.kw THEN {"Software"} ELSE {})
    \cup (IF "cloud" \in hit.kw THEN {"Cloud Solutions"} ELSE {})
    \cup (IF "consulting" \in hit.kw THEN {"Consulting"} ELSE {})

_extract_pricing(hit) ==
  IF "subscription" \in hit.kw THEN Str("Subscription-based pricing model")
  ELSE IF "freemium" \in hit.kw THEN Str("Freemium pricing model")
  ELSE IF "pay-per-use" \in hit.kw THEN Str("Pay-per-use pricing model")
  ELSE NoneV

common_competitors == {"Microsoft", "Google", "Amazon", "IBM", "Oracle", "Salesforce"}

\* _extract_competitors evaluates company_name.lower() only for a competitor
\* the text mentions; on a NULL name that raises AttributeError.
ExtractCompetitorsRaises(hit, name) ==
  name = NoName /\ \E c \in common_competitors : Lower(c) \in hit.kw

_extract_competitors(hit, name) ==
  {c \in common_competitors : Lower(c) \in hit.kw /\ Lower(c) # Lower(name)}

\* One pass of the for loop of _extract_insights over one hit.
ExtractOne(insights, hit, name) ==
  LET vp == IF ~Truthy(insights["company_value_prop"])
            THEN _extract_value_prop(hit) ELSE insights["company_value_prop"]
      prods == _extract_products(hit)
      pn == IF prods # {}
            THEN List((IF insights["product_names"].tag = "list"
                       THEN insights["product_names"].items ELSE {}) \cup prods)
            ELSE insights["product_names"]
      pm == IF ~Truthy(insights["pricing_model"])
            THEN _extract_pricing(hit) ELSE insights["pricing_model"]
      comps == _extract_competitors(hit, name)
      kc == IF comps # {}
            THEN List((IF insights["key_competitors"].tag = "list"
                       THEN insights["key_competitors"].items ELSE {}) \cup comps)
            ELSE insights["key_competitors"]
  IN [insights EXCEPT !["company_value_prop"] = vp, !["product_names"] = pn,
                      !["pricing_model"] = pm, !["key_competitors"] = kc]

RECURSIVE ExtractFrom(_, _, _, _)
ExtractFrom(insights, hits, k, name) ==
  IF k > Len(hits) THEN insights
  ELSE ExtractFrom(ExtractOne(insights, hits[k], name), hits, k + 1, name)

\* _deduplicate_insights: list(set(...)) of a list that is already a set
_deduplicate_insights(insights) == insights

_extract_insights(hits, name) == _deduplicate_insights(ExtractFrom(EmptyDict, hits, 1, name))

ExtractRaises(hits, name) ==
  \E k \in 1..Len(hits) : ExtractCompetitorsRaises(hits[k], name)

\* a merge that drops from a list what the extraction repeats
DictUpdate_Toggle(res, extracted) ==
  [f \in Fields |->
     IF extracted[f].tag = "absent" THEN res[f]
     ELSE IF extracted[f].tag = "list" /\ res[f].tag = "list"
          THEN List((res[f].items \ extracted[f].items)
                      \cup (extracted[f].items \ res[f].items))
          ELSE extracted[f]]

\* results.update(extracted_data): every key of the argument is assigned
DictUpdate(res, extracted) ==
  [f \in Fields |-> IF extracted[f].tag # "absent" THEN extracted[f] ELSE res[f]]

_create_progress_update(it, res) ==
  [type |-> "progress", iteration |-> it + 1, total_iterations |-> 3,
   fields_found |-> Keys(res), fields_remaining |-> _get_missing_fields(res)]

\* a query: the f-string's company name, its fixed words, and whether
\* company.domain is interpolated
Query(name, words, with_domain) ==
  [name |-> name, words |-> words, with_domain |-> with_domain]

NoQuery == [name |-> NoName, words |-> "", with_domain |-> FALSE]

\* the planner with the pricing template tried before the value proposition
_generate_search_query_PricingFirst(name, current_results, it) ==
  LET missing_fields == _get_missing_fields(current_results) IN
  IF it = 0 THEN Query(name, "company overview products pricing", FALSE)
  ELSE IF "pricing_model" \in missing_fields
       THEN Query(name, "pricing plans cost subscription", FALSE)
  ELSE IF "company_value_prop" \in missing_fields
       THEN Query(name, "value proposition mission what does", FALSE)
  ELSE IF "key_competitors" \in missing_fields
       THEN Query(name, "competitors alternatives vs", FALSE)
  ELSE Query(name, "about products", TRUE)

_generate_search_query(name, current_results, it) ==
  LET missing_fields == _get_missing_fields(current_results) IN
  IF it = 0 THEN Query(name, "company overview products pricing", FALSE)
  ELSE IF "company_value_prop" \in missing_fields
       THEN Query(name, "value proposition mission what does", FALSE)
  ELSE IF "pricing_model" \in missing_fields
       THEN Query(name, "pricing plans cost subscription", FALSE)
  ELSE IF "key_competitors" \in missing_fields
       THEN Query(name, "competitors alternatives vs", FALSE)
  ELSE Query(name, "about products", TRUE)

\* the loop condition with the bound tested one iteration late
LoopContinues_OffByOne(it, res) == it <= max_iterations /\ ~_all_fields_found(res)

\* the loop condition of research_person
LoopContinues(it, res) == it < max_iterations /\ ~_all_fields_found(res)

(***************************************************************************)
(* State                                                                   *)
(***************************************************************************)
VARIABLES
  \* --- one run of research_person ---
  pc,               \* position of the run
  target,           \* what Person.query.get / Company.query.get return, and the callback argument
  results,          \* the `results` dict
  iteration,        \* the `iteration` counter
  query,            \* the query of the last search call
  search_results,   \* the hits of the last search call
  search_calls,     \* number of search_provider.search calls made
  callback_log,     \* messages passed to progress_callback, in order
  saved,            \* context snippets committed by _save_context_snippet
  returned,         \* the value research_person returned
  exc,              \* the exception that left research_person, "" when none
  \* --- WebSocketService ---
  progress_data,    \* the registry: session id -> snapshot (a function on the ids present)
  thread,           \* per session id, the position of its _simulate_research_process thread
  rooms,            \* Socket.IO rooms: session id -> member clients
  active_sessions,  \* the active_sessions dict: client -> session id (a function on the clients present)
  connected,        \* the connected clients
  published,        \* per session id, the socketio.emit(..., room=session_id) calls, in order
  inbox,            \* per client, the last message delivered to it
  startable,        \* fresh session ids the start route may still generate
  budget,           \* administrative calls on registered sessions still to be made
  reply             \* the last response of the progress route

agentVars == <<pc, target, results, iteration, query, search_results, search_calls,
               callback_log, saved, returned, exc>>

wsVars == <<progress_data, thread, rooms, active_sessions, connected, published,
            inbox, startable, budget, reply>>

vars == <<agentVars, wsVars>>

Targets ==
  [person_found : BOOLEAN, company_found : BOOLEAN, name : CompanyNames,
   has_callback : BOOLEAN]

\* no research_person run: the agent variables of the service's specifications
IdleAgent ==
  /\ pc = "idle"
  /\ target = [person_found |-> FALSE, company_found |-> FALSE, name |-> NoName,
               has_callback |-> FALSE]
  /\ results = EmptyDict
  /\ iteration = 0
  /\ query = NoQuery
  /\ search_results = <<>>
  /\ search_calls = 0
  /\ callback_log = <<>>
  /\ saved = <<>>
  /\ returned = EmptyDict
  /\ exc = ""

InitAgent ==
  /\ pc = "start"
  /\ target \in Targets
  /\ results = EmptyDict
  /\ iteration = 0
  /\ query = NoQuery
  /\ search_results = <<>>
  /\ search_calls = 0
  /\ callback_log = <<>>
  /\ saved = <<>>
  /\ returned = EmptyDict
  /\ exc = ""

\* lines 60-70: the two lookups and the initialisation of the loop
\* the lookups with the company test left out
Resolved_PersonOnly(t) == t.person_found

Resolved(t) == t.person_found /\ t.company_found

Resolve ==
  /\ pc = "start"
  /\ IF Resolved(target)
     THEN /\ pc' = "loop"
          /\ exc' = exc
     ELSE /\ pc' = "raised"
          /\ exc' = "ValueError"
  /\ UNCHANGED <<query, target, results, iteration, search_results, search_calls,
                 callback_log, saved, returned>>
  /\ UNCHANGED wsVars

\* lines 72-89: one iteration whose search call returns `hits`
Iterate ==
  /\ pc = "loop"
  /\ LoopContinues(iteration, results)
  /\ \E hits \in SearchResults :
       /\ search_calls' = search_calls + 1
       /\ search_results' = hits
       /\ IF ExtractRaises(hits, target.name)
          THEN /\ pc' = "raised"
               /\ exc' = "AttributeError"
               /\ UNCHANGED <<results, iteration, callback_log>>
          ELSE /\ results' = DictUpdate(results, _extract_insights(hits, target.name))
               /\ callback_log' =
                    IF target.has_callback
                    THEN Append(callback_log, _create_progress_update(iteration, results'))
                    ELSE callback_log
               /\ iteration' = iteration + 1
               /\ UNCHANGED <<pc, exc>>
  /\ query' = _generate_search_query(target.name, results, iteration)
  /\ UNCHANGED <<target, saved, returned>>
  /\ UNCHANGED wsVars

\* line 76: the awaited search call raises
SearchFails ==
  /\ pc = "loop"
  /\ LoopContinues(iteration, results)
  /\ search_calls' = search_calls + 1
  /\ pc' = "raised"
  /\ exc' = "SearchError"
  /\ query' = _generate_search_query(target.name, results, iteration)
  /\ UNCHANGED <<target, results, iteration, search_results, callback_log, saved, returned>>
  /\ UNCHANGED wsVars

\* lines 91-99: the loop is left, the mock data replace the results
\* 'alpha' in company.name.lower(), 'techcorp' for a NULL name
ContainsAlpha(name) == name # NoName /\ Lower(name) = "alpha pro tech"

MockKey(name) == IF ContainsAlpha(name) THEN "alpha" ELSE "techcorp"

Finish ==
  /\ pc = "loop"
  /\ ~LoopContinues(iteration, results)
  /\ results' = mock_results[MockKey(target.name)]
  /\ returned' = _validate_results(results')
  /\ pc' = "save"
  /\ UNCHANGED <<query, target, iteration, search_results, search_calls, callback_log, saved, exc>>
  /\ UNCHANGED wsVars

\* lines 100-102 and 242-255: the snippet is committed and the result returned
Save ==
  /\ pc = "save"
  /\ saved' = Append(saved, [payload |-> returned,
                             source_urls |-> [k \in 1..Len(search_results) |-> search_results[k].url]])
  /\ pc' = "returned"
  /\ UNCHANGED <<query, target, results, iteration, search_results, search_calls,
                 callback_log, returned, exc>>
  /\ UNCHANGED wsVars

\* line 253: db.session.commit() raises
SaveFails ==
  /\ pc = "save"
  /\ pc' = "raised"
  /\ exc' = "DBError"
  /\ UNCHANGED <<query, target, results, iteration, search_results, search_calls,
                 callback_log, saved, returned>>
  /\ UNCHANGED wsVars


(***************************************************************************)
(* WebSocketService                                                        *)
(***************************************************************************)
Sessions == {"s1", "s2"}
Clients == {"c1", "c2"}

\* the `steps` list of _simulate_research_process
steps ==
  <<"Searching LinkedIn profiles...", "Analyzing company information...",
    "Gathering social media data...", "Processing competitive intelligence...",
    "Finalizing research report...">>

\* results argument of complete_research, error_message of error_research,
\* progress_data argument of update_progress
ResultsInputs == {<<>>, <<"final_report">>}
ErrorMessages == {"search backend down"}
Patches == {[current_step |-> "Manual note"], [status |-> "in_progress"]}

\* a snapshot that is already in progress when it is inserted
InitialSnapshot_InProgress ==
  [status |-> "in_progress", progress |-> 0, current_step |-> "Initializing research...",
   steps_completed |-> 0, total_steps |-> 5, results |-> <<>>, error_message |-> ""]

\* lines 65-77: the snapshot start_research_session inserts
InitialSnapshot ==
  [status |-> "starting", progress |-> 0, current_step |-> "Initializing research...",
   steps_completed |-> 0, total_steps |-> 5, results |-> <<>>, error_message |-> ""]

\* dict.update on a snapshot
SnapUpdate(snap, patch) ==
  [k \in DOMAIN snap |-> IF k \in DOMAIN patch THEN patch[k] ELSE snap[k]]

\* delivery by the active_sessions table instead of the room
RoomMembers_ByActiveSession(s) == {c \in DOMAIN active_sessions : active_sessions[c] = s}

\* socketio.emit(event, data, room=session_id): the members of the room receive it
RoomMembers(s) == rooms[s]

Message(s, kind, snap) == [event |-> kind, session_id |-> s, snap |-> snap]

Emit(s, kind, snap) ==
  /\ published' = [published EXCEPT ![s] = Append(@, Message(s, kind, snap))]
  /\ inbox' = [c \in Clients |-> IF c \in RoomMembers(s) THEN Message(s, kind, snap)
                                  ELSE inbox[c]]

\* the registry read through a defaulting dict, which answers for every id
get_session_progress_Default(s) ==
  IF s \in DOMAIN progress_data THEN progress_data[s] ELSE InitialSnapshot

\* get_session_progress: progress_data.get(session_id)
NotFound == [status |-> "<none>"]
get_session_progress(s) == IF s \in DOMAIN progress_data THEN progress_data[s] ELSE NotFound

NoMessage == [event |-> "<none>"]
NoReply == [code |-> 0]

InitService ==
  /\ progress_data = <<>>
  /\ thread = [s \in Sessions |-> [pc |-> "idle", i |-> 0]]
  /\ rooms = [s \in Sessions |-> {}]
  /\ active_sessions = <<>>
  /\ connected = {}
  /\ published = [s \in Sessions |-> <<>>]
  /\ inbox = [c \in Clients |-> NoMessage]
  /\ reply = NoReply

\* one session may be started; no client connects
InitWS ==
  /\ InitService
  /\ startable = {"s1"}
  /\ budget = MaxAdminCalls

\* one session may be started; clients connect and subscribe
InitRooms ==
  /\ InitService
  /\ startable = {"s1"}
  /\ budget = MaxRoomAdminCalls

\* two sessions may be started; no client connects
InitTwo ==
  /\ InitService
  /\ startable = Sessions
  /\ budget = MaxTwoAdminCalls

\* dict with key k set to v, dict without key k
DictSet(d, k, v) == [x \in DOMAIN d \cup {k} |-> IF x = k THEN v ELSE d[x]]
DictDel(d, k) == [x \in DOMAIN d \ {k} |-> d[x]]

\* start that runs the research itself and returns when it is over
start_research_session_Blocking(s) ==
  /\ s \in startable
  /\ startable' = startable \ {s}
  /\ progress_data' =
       DictSet(progress_data, s,
               SnapUpdate(InitialSnapshot,
                          [status |-> "completed", progress |-> 100,
                           current_step |-> "Research completed successfully!",
                           steps_completed |-> Len(steps)]))
  /\ Emit(s, "research_started", InitialSnapshot)
  /\ thread' = [thread EXCEPT ![s] = [pc |-> "done", i |-> Len(steps)]]
  /\ UNCHANGED <<rooms, active_sessions, connected, budget>>
  /\ UNCHANGED <<agentVars, reply>>

\* lines 63-85: a fresh session id (uuid4 of the route) is registered, the
\* initial status published and the thread launched; the call returns
start_research_session(s) ==
  /\ s \in startable
  /\ startable' = startable \ {s}
  /\ progress_data' = DictSet(progress_data, s, InitialSnapshot)
  /\ Emit(s, "research_started", InitialSnapshot)
  /\ thread' = [thread EXCEPT ![s] = [pc |-> "entry", i |-> 0]]
  /\ UNCHANGED <<rooms, active_sessions, connected, budget>>
  /\ UNCHANGED <<agentVars, reply>>

Goto(s, p, n) == [thread EXCEPT ![s] = [pc |-> p, i |-> n]]

\* lines 89-90
Run_Entry(s) ==
  /\ thread[s].pc = "entry"
  /\ thread' = IF s \in DOMAIN progress_data THEN Goto(s, "check", 0) ELSE Goto(s, "done", 0)
  /\ UNCHANGED <<progress_data, rooms, active_sessions, connected, published, inbox,
                 startable, budget>>
  /\ UNCHANGED <<agentVars, reply>>

\* lines 100-102: the membership test at the top of the loop body
Run_Check(s) ==
  /\ thread[s].pc = "check"
  /\ thread' = IF s \in DOMAIN progress_data
               THEN Goto(s, "update", thread[s].i)
               ELSE Goto(s, "final_check", thread[s].i)
  /\ UNCHANGED <<progress_data, rooms, active_sessions, connected, published, inbox,
                 startable, budget>>
  /\ UNCHANGED <<agentVars, reply>>

\* int((i / len(steps)) * 100)
StepProgress(i) == (i * 100) \div Len(steps)

\* the update written as an assignment, which puts a removed entry back
Run_Update_Reinserts(s) ==
  /\ thread[s].pc = "update"
  /\ progress_data' =
       DictSet(progress_data, s,
               SnapUpdate(IF s \in DOMAIN progress_data THEN progress_data[s]
                          ELSE InitialSnapshot,
                          [status |-> "in_progress",
                           progress |-> StepProgress(thread[s].i),
                           current_step |-> steps[thread[s].i + 1],
                           steps_completed |-> thread[s].i]))
  /\ thread' = Goto(s, "emit", thread[s].i)
  /\ UNCHANGED <<rooms, active_sessions, connected, published, inbox,
                 startable, budget>>
  /\ UNCHANGED <<agentVars, reply>>

\* lines 105-111: progress_data[session_id].update({...}); KeyError when the
\* entry is gone
Run_Update(s) ==
  /\ thread[s].pc = "update"
  /\ IF s \in DOMAIN progress_data
     THEN /\ progress_data' =
               [progress_data EXCEPT ![s] =
                  SnapUpdate(@, [status |-> "in_progress",
                                 progress |-> StepProgress(thread[s].i),
                                 current_step |-> steps[thread[s].i + 1],
                                 steps_completed |-> thread[s].i])]
          /\ thread' = Goto(s, "emit", thread[s].i)
     ELSE /\ thread' = Goto(s, "fault", thread[s].i)
          /\ UNCHANGED progress_data
  /\ UNCHANGED <<rooms, active_sessions, connected, published, inbox,
                 startable, budget>>
  /\ UNCHANGED <<agentVars, reply>>

\* the position after step i's emit: steps 1 and 3 append a result after the
\* sleep, the others go to the next loop test
AfterEmit(s, i) ==
  IF i \in {1, 3} THEN Goto(s, "work", i)
  ELSE IF i + 1 < Len(steps) THEN Goto(s, "check", i + 1)
  ELSE Goto(s, "final_check", i + 1)

\* line 114
Run_Emit(s) ==
  /\ thread[s].pc = "emit"
  /\ IF s \in DOMAIN progress_data
     THEN /\ Emit(s, "progress_update", progress_data[s])
          /\ thread' = AfterEmit(s, thread[s].i)
     ELSE /\ thread' = Goto(s, "fault", thread[s].i)
          /\ UNCHANGED <<published, inbox>>
  /\ UNCHANGED <<progress_data, rooms, active_sessions, connected,
                 startable, budget>>
  /\ UNCHANGED <<agentVars, reply>>

StepResult(i) == IF i = 1 THEN "company_info" ELSE "competitive_intel"

\* lines 117-138: after the sleep, steps 1 and 3 append a result entry
Run_Work(s) ==
  /\ thread[s].pc = "work"
  /\ IF s \in DOMAIN progress_data
     THEN /\ progress_data' =
               [progress_data EXCEPT ![s].results = Append(@, StepResult(thread[s].i))]
          /\ thread' = IF thread[s].i + 1 < Len(steps)
                       THEN Goto(s, "check", thread[s].i + 1)
                       ELSE Goto(s, "final_check", thread[s].i + 1)
     ELSE /\ thread' = Goto(s, "fault", thread[s].i)
          /\ UNCHANGED progress_data
  /\ UNCHANGED <<rooms, active_sessions, connected, published, inbox,
                 startable, budget>>
  /\ UNCHANGED <<agentVars, reply>>

\* the run ends after its loop without the completion block
Run_FinalCheck_Skips(s) ==
  /\ thread[s].pc = "final_check"
  /\ thread' = Goto(s, "done", thread[s].i)
  /\ UNCHANGED <<progress_data, rooms, active_sessions, connected, published, inbox,
                 startable, budget>>
  /\ UNCHANGED <<agentVars, reply>>

\* line 141
Run_FinalCheck(s) ==
  /\ thread[s].pc = "final_check"
  /\ thread' = IF s \in DOMAIN progress_data
               THEN Goto(s, "final_update", thread[s].i)
               ELSE Goto(s, "done", thread[s].i)
  /\ UNCHANGED <<progress_data, rooms, active_sessions, connected, published, inbox,
                 startable, budget>>
  /\ UNCHANGED <<agentVars, reply>>

\* lines 142-148
Run_FinalUpdate(s) ==
  /\ thread[s].pc = "final_update"
  /\ IF s \in DOMAIN progress_data
     THEN /\ progress_data' =
               [progress_data EXCEPT ![s] =
                  SnapUpdate(@, [status |-> "completed", progress |-> 100,
                                 current_step |-> "Research completed successfully!",
                                 steps_completed |-> Len(steps)])]
          /\ thread' = Goto(s, "final_emit", thread[s].i)
     ELSE /\ thread' = Goto(s, "fault", thread[s].i)
          /\ UNCHANGED progress_data
  /\ UNCHANGED <<rooms, active_sessions, connected, published, inbox,
                 startable, budget>>
  /\ UNCHANGED <<agentVars, reply>>

\* the run drops its entry once the completion is published
Run_FinalEmit_Expires(s) ==
  /\ thread[s].pc = "final_emit"
  /\ IF s \in DOMAIN progress_data
     THEN /\ Emit(s, "research_completed", progress_data[s])
          /\ progress_data' = DictDel(progress_data, s)
          /\ thread' = Goto(s, "done", thread[s].i)
     ELSE /\ thread' = Goto(s, "fault", thread[s].i)
          /\ UNCHANGED <<progress_data, published, inbox>>
  /\ UNCHANGED <<rooms, active_sessions, connected, startable, budget>>
  /\ UNCHANGED <<agentVars, reply>>

\* line 151
Run_FinalEmit(s) ==
  /\ thread[s].pc = "final_emit"
  /\ IF s \in DOMAIN progress_data
     THEN /\ Emit(s, "research_completed", progress_data[s])
          /\ thread' = Goto(s, "done", thread[s].i)
     ELSE /\ thread' = Goto(s, "fault", thread[s].i)
          /\ UNCHANGED <<published, inbox>>
  /\ UNCHANGED <<progress_data, rooms, active_sessions, connected,
                 startable, budget>>
  /\ UNCHANGED <<agentVars, reply>>

\* lines 153-157
update_progress(s, patch) ==
  /\ s \in DOMAIN progress_data => budget > 0
  /\ IF s \in DOMAIN progress_data
     THEN /\ progress_data' = [progress_data EXCEPT ![s] = SnapUpdate(@, patch)]
          /\ Emit(s, "progress_update", progress_data'[s])
          /\ budget' = budget - 1
     ELSE UNCHANGED <<progress_data, published, inbox, budget>>
  /\ UNCHANGED <<thread, rooms, active_sessions, connected, startable>>
  /\ UNCHANGED <<agentVars, reply>>

\* a completion that registers the id when it is unknown
complete_research_call_Upsert(s, res) ==
  /\ s \in DOMAIN progress_data => budget > 0
  /\ progress_data' =
       DictSet(progress_data, s,
               SnapUpdate(IF s \in DOMAIN progress_data THEN progress_data[s]
                          ELSE InitialSnapshot,
                          [status |-> "completed", progress |-> 100,
                           current_step |-> "Research completed successfully!",
                           results |-> res]))
  /\ Emit(s, "research_completed", progress_data'[s])
  /\ budget' = IF s \in DOMAIN progress_data THEN budget - 1 ELSE budget
  /\ UNCHANGED <<thread, rooms, active_sessions, connected, startable>>
  /\ UNCHANGED agentVars

\* lines 159-170: the body of complete_research
complete_research_call(s, res) ==
  /\ s \in DOMAIN progress_data => budget > 0
  /\ IF s \in DOMAIN progress_data
     THEN /\ progress_data' =
               [progress_data EXCEPT ![s] =
                  SnapUpdate(@, [status |-> "completed", progress |-> 100,
                                 current_step |-> "Research completed successfully!",
                                 results |-> res])]
          /\ Emit(s, "research_completed", progress_data'[s])
          /\ budget' = budget - 1
     ELSE UNCHANGED <<progress_data, published, inbox, budget>>
  /\ UNCHANGED <<thread, rooms, active_sessions, connected, startable>>
  /\ UNCHANGED agentVars

\* complete_research called on the service
complete_research(s, res) == complete_research_call(s, res) /\ UNCHANGED reply

\* routes/websocket_routes.py lines 76-101: POST .../complete answers success
\* after the call, whatever the call did
complete_research_session(s, res) ==
  /\ complete_research_call(s, res)
  /\ reply' = [code |-> 200, session_id |-> s, message |-> "Research session completed"]

\* f'Error: {error_message}'
ErrorStep(msg) ==
  IF msg = "search backend down" THEN "Error: search backend down" ELSE "Error: "

\* the failure replaces the snapshot of the session
error_research_DropsResults(s, msg) ==
  /\ s \in DOMAIN progress_data => budget > 0
  /\ IF s \in DOMAIN progress_data
     THEN /\ progress_data' =
               [progress_data EXCEPT ![s] =
                  SnapUpdate(InitialSnapshot,
                             [status |-> "error", current_step |-> ErrorStep(msg),
                              error_message |-> msg])]
          /\ Emit(s, "research_error", progress_data'[s])
          /\ budget' = budget - 1
     ELSE UNCHANGED <<progress_data, published, inbox, budget>>
  /\ UNCHANGED <<thread, rooms, active_sessions, connected, startable>>
  /\ UNCHANGED <<agentVars, reply>>

\* the failure is written to every registered session
error_research_AllSessions(s, msg) ==
  /\ s \in DOMAIN progress_data => budget > 0
  /\ IF s \in DOMAIN progress_data
     THEN /\ progress_data' =
               [x \in DOMAIN progress_data |->
                  SnapUpdate(progress_data[x],
                             [status |-> "error", current_step |-> ErrorStep(msg),
                              error_message |-> msg])]
          /\ Emit(s, "research_error", progress_data'[s])
          /\ budget' = budget - 1
     ELSE UNCHANGED <<progress_data, published, inbox, budget>>
  /\ UNCHANGED <<thread, rooms, active_sessions, connected, startable>>
  /\ UNCHANGED <<agentVars, reply>>

\* lines 172-182: the body of error_research
error_research_call(s, msg) ==
  /\ s \in DOMAIN progress_data => budget > 0
  /\ IF s \in DOMAIN progress_data
     THEN /\ progress_data' =
               [progress_data EXCEPT ![s] =
                  SnapUpdate(@, [status |-> "error", current_step |-> ErrorStep(msg),
                                 error_message |-> msg])]
          /\ Emit(s, "research_error", progress_data'[s])
          /\ budget' = budget - 1
     ELSE UNCHANGED <<progress_data, published, inbox, budget>>
  /\ UNCHANGED <<thread, rooms, active_sessions, connected, startable>>
  /\ UNCHANGED agentVars

\* error_research called on the service
error_research(s, msg) == error_research_call(s, msg) /\ UNCHANGED reply

\* routes/websocket_routes.py lines 103-128: POST .../error answers success
\* after the call, whatever the call did
error_research_session(s, msg) ==
  /\ error_research_call(s, msg)
  /\ reply' = [code |-> 200, session_id |-> s,
               message |-> "Research session marked as failed"]

\* lines 188-191
cleanup_session(s) ==
  /\ s \in DOMAIN progress_data => budget > 0
  /\ IF s \in DOMAIN progress_data
     THEN /\ progress_data' = DictDel(progress_data, s)
          /\ budget' = budget - 1
     ELSE UNCHANGED <<progress_data, budget>>
  /\ UNCHANGED <<thread, rooms, active_sessions, connected, published, inbox,
                 startable>>
  /\ UNCHANGED <<agentVars, reply>>

\* lines 17-21
handle_connect(c) ==
  /\ c \notin connected
  /\ connected' = connected \cup {c}
  /\ inbox' = [inbox EXCEPT ![c] = [event |-> "connected"]]
  /\ UNCHANGED <<progress_data, thread, rooms, active_sessions, published, startable>>
  /\ UNCHANGED budget
  /\ UNCHANGED <<agentVars, reply>>

\* lines 23-29; Socket.IO takes a disconnected client out of every room
handle_disconnect(c) ==
  /\ c \in connected
  /\ connected' = connected \ {c}
  /\ active_sessions' = DictDel(active_sessions, c)
  /\ rooms' = [s \in Sessions |-> rooms[s] \ {c}]
  /\ UNCHANGED <<progress_data, thread, published, inbox, startable>>
  /\ UNCHANGED budget
  /\ UNCHANGED <<agentVars, reply>>

\* lines 31-41
handle_join_research_session(c, s) ==
  /\ c \in connected
  /\ UNCHANGED budget
  /\ rooms' = [rooms EXCEPT ![s] = @ \cup {c}]
  /\ active_sessions' = DictSet(active_sessions, c, s)
  /\ inbox' = [inbox EXCEPT ![c] = [event |-> "joined_session", session_id |-> s,
                                    status |-> "Joined research session"]]
  /\ UNCHANGED <<progress_data, thread, connected, published, startable>>
  /\ UNCHANGED <<agentVars, reply>>

\* a leave that switches the membership
handle_leave_research_session_Toggle(c, s) ==
  /\ c \in connected
  /\ UNCHANGED budget
  /\ rooms' = [rooms EXCEPT ![s] = IF c \in @ THEN @ \ {c} ELSE @ \cup {c}]
  /\ active_sessions' = DictDel(active_sessions, c)
  /\ inbox' = [inbox EXCEPT ![c] = [event |-> "left_session", session_id |-> s,
                                    status |-> "Left research session"]]
  /\ UNCHANGED <<progress_data, thread, connected, published, startable>>
  /\ UNCHANGED <<agentVars, reply>>

\* lines 43-54
handle_leave_research_session(c, s) ==
  /\ c \in connected
  /\ UNCHANGED budget
  /\ rooms' = [rooms EXCEPT ![s] = @ \ {c}]
  /\ active_sessions' = DictDel(active_sessions, c)
  /\ inbox' = [inbox EXCEPT ![c] = [event |-> "left_session", session_id |-> s,
                                    status |-> "Left research session"]]
  /\ UNCHANGED <<progress_data, thread, connected, published, startable>>
  /\ UNCHANGED <<agentVars, reply>>

\* lines 56-61
handle_get_progress(c, s) ==
  /\ c \in connected
  /\ UNCHANGED budget
  /\ inbox' = IF s \in DOMAIN progress_data
              THEN [inbox EXCEPT ![c] = [event |-> "progress_update", snap |-> progress_data[s]]]
              ELSE inbox
  /\ UNCHANGED <<progress_data, thread, rooms, active_sessions, connected, published,
                 startable>>
  /\ UNCHANGED <<agentVars, reply>>

\* routes/websocket_routes.py lines 47-68: GET /research/session/<id>/progress
\* answers 404 when get_session_progress returns None, the snapshot otherwise
progress_route(s) ==
  /\ reply' = IF get_session_progress(s) = NotFound
              THEN [code |-> 404, session_id |-> s, progress |-> NotFound]
              ELSE [code |-> 200, session_id |-> s, progress |-> get_session_progress(s)]
  /\ UNCHANGED <<progress_data, thread, rooms, active_sessions, connected, published,
                 inbox, startable, budget>>
  /\ UNCHANGED agentVars

NextWS ==
  \/ \E s \in Sessions : start_research_session(s)
  \/ \E s \in Sessions : Run_Entry(s)
  \/ \E s \in Sessions : Run_Check(s)
  \/ \E s \in Sessions : Run_Update(s)
  \/ \E s \in Sessions : Run_Emit(s)
  \/ \E s \in Sessions : Run_Work(s)
  \/ \E s \in Sessions : Run_FinalCheck(s)
  \/ \E s \in Sessions : Run_FinalUpdate(s)
  \/ \E s \in Sessions : Run_FinalEmit(s)
  \/ \E s \in Sessions, patch \in Patches : update_progress(s, patch)
  \/ \E s \in Sessions, res \in ResultsInputs : complete_research(s, res)
  \/ \E s \in Sessions, msg \in ErrorMessages : error_research(s, msg)
  \/ \E s \in Sessions : cleanup_session(s)

\* the service without update_progress calls
NextRun ==
  \/ \E s \in Sessions : start_research_session(s)
  \/ \E s \in Sessions : Run_Entry(s)
  \/ \E s \in Sessions : Run_Check(s)
  \/ \E s \in Sessions : Run_Update(s)
  \/ \E s \in Sessions : Run_Emit(s)
  \/ \E s \in Sessions : Run_Work(s)
  \/ \E s \in Sessions : Run_FinalCheck(s)
  \/ \E s \in Sessions : Run_FinalUpdate(s)
  \/ \E s \in Sessions : Run_FinalEmit(s)
  \/ \E s \in Sessions, res \in ResultsInputs : complete_research(s, res)
  \/ \E s \in Sessions, msg \in ErrorMessages : error_research(s, msg)
  \/ \E s \in Sessions : cleanup_session(s)

NextRooms ==
  \/ \E s \in Sessions : start_research_session(s)
  \/ \E s \in Sessions : Run_Entry(s)
  \/ \E s \in Sessions : Run_Check(s)
  \/ \E s \in Sessions : Run_Update(s)
  \/ \E s \in Sessions : Run_Emit(s)
  \/ \E s \in Sessions : Run_Work(s)
  \/ \E s \in Sessions : Run_FinalCheck(s)
  \/ \E s \in Sessions : Run_FinalUpdate(s)
  \/ \E s \in Sessions : Run_FinalEmit(s)
  \/ \E s \in Sessions, patch \in Patches : update_progress(s, patch)
  \/ \E s \in Sessions, res \in ResultsInputs : complete_research(s, res)
  \/ \E s \in Sessions, msg \in ErrorMessages : error_research(s, msg)
  \/ \E c \in Clients : handle_connect(c)
  \/ \E c \in Clients : handle_disconnect(c)
  \/ \E c \in Clients, s \in Sessions : handle_join_research_session(c, s)
  \/ \E c \in Clients, s \in Sessions : handle_leave_research_session(c, s)

\* the service with the progress route and the calls that end a session
NextQuery ==
  \/ \E s \in Sessions : start_research_session(s)
  \/ \E s \in Sessions : Run_Entry(s)
  \/ \E s \in Sessions : Run_Check(s)
  \/ \E s \in Sessions : Run_Update(s)
  \/ \E s \in Sessions : Run_Emit(s)
  \/ \E s \in Sessions : Run_Work(s)
  \/ \E s \in Sessions : Run_FinalCheck(s)
  \/ \E s \in Sessions : Run_FinalUpdate(s)
  \/ \E s \in Sessions : Run_FinalEmit(s)
  \/ \E s \in Sessions, msg \in ErrorMessages : error_research(s, msg)
  \/ \E s \in Sessions : cleanup_session(s)
  \/ \E s \in Sessions : progress_route(s)

\* the service with the routes that end a session
NextAdmin ==
  \/ \E s \in Sessions : start_research_session(s)
  \/ \E s \in Sessions : Run_Entry(s)
  \/ \E s \in Sessions : Run_Check(s)
  \/ \E s \in Sessions : Run_Update(s)
  \/ \E s \in Sessions : Run_Emit(s)
  \/ \E s \in Sessions : Run_Work(s)
  \/ \E s \in Sessions : Run_FinalCheck(s)
  \/ \E s \in Sessions : Run_FinalUpdate(s)
  \/ \E s \in Sessions : Run_FinalEmit(s)
  \/ \E s \in Sessions, patch \in Patches : update_progress(s, patch)
  \/ \E s \in Sessions, res \in ResultsInputs : complete_research_session(s, res)
  \/ \E s \in Sessions, msg \in ErrorMessages : error_research_session(s, msg)
  \/ \E s \in Sessions : cleanup_session(s)

InitSpecWS == IdleAgent /\ InitWS

SpecAdmin == InitSpecWS /\ [][NextAdmin]_vars

SpecQuery == InitSpecWS /\ [][NextQuery]_vars

InitSpecTwo == IdleAgent /\ InitTwo

SpecTwo == InitSpecTwo /\ [][NextWS]_vars

SpecWS == InitSpecWS /\ [][NextWS]_vars

SpecRun == InitSpecWS /\ [][NextRun]_vars

InitSpecRooms == IdleAgent /\ InitRooms

SpecRooms == InitSpecRooms /\ [][NextRooms]_vars

NextAgent == Resolve \/ Iterate \/ SearchFails \/ Finish \/ Save \/ SaveFails

InitSpecAgent == InitAgent /\ InitWS

SpecAgent == InitSpecAgent /\ [][NextAgent]_vars

(***************************************************************************)
(* _validate_results on accumulated results of every shape: a key outside  *)
(* the required fields, None, empty strings and empty lists.               *)
(***************************************************************************)
ScalarValues == {Absent, NoneV, Str(""), Str("found")}
ListValues == {Absent, List({}), List({"Item"})}

AccumulatedResults ==
  [company_value_prop : ScalarValues, product_names : ListValues,
   pricing_model : ScalarValues, key_competitors : ListValues,
   company_domain : ScalarValues, notes : {Absent, Str("scratch")}]

InitValidate ==
  /\ pc = "validate"
  /\ target = [person_found |-> TRUE, company_found |-> TRUE, name |-> "Acme",
               has_callback |-> FALSE]
  /\ results \in AccumulatedResults
  /\ iteration = max_iterations
  /\ query = NoQuery
  /\ search_results = <<>>
  /\ search_calls = max_iterations
  /\ callback_log = <<>>
  /\ saved = <<>>
  /\ returned = EmptyDict
  /\ exc = ""

\* line 99
Validate ==
  /\ pc = "validate"
  /\ returned' = _validate_results(results)
  /\ pc' = "save"
  /\ UNCHANGED <<query, target, results, iteration, search_results, search_calls,
                 callback_log, saved, exc>>
  /\ UNCHANGED wsVars

NextValidate == Validate \/ Save \/ SaveFails

InitSpecValidate == InitValidate /\ InitWS

SpecValidate == InitSpecValidate /\ [][NextValidate]_vars

(***************************************************************************)
(* Properties of research_person (checked under SpecAgent)                 *)
(***************************************************************************)
ScalarFields == {"company_value_prop", "pricing_model"}
MultiFields == {"product_names", "key_competitors"}

\* the elements of a list-valued entry (none for an absent entry)
Items(v) == IF v.tag = "list" THEN v.items ELSE {}

\* a step that completed one loop iteration (search, extract, merge, callback)
IterationDone == iteration' = iteration + 1

\* C1: the search provider is called at most 3 times; a search call is made
\* only while the iteration count is below 3 and some required field is still
\* empty, and once all five required fields are non-empty after a merge the
\* next step leaves the loop.
C1_BoundedLoop ==
  /\ [](search_calls <= max_iterations)
  /\ [][/\ search_calls' # search_calls =>
             iteration < max_iterations /\ ~_all_fields_found(results)
        /\ (pc = "loop" /\ _all_fields_found(results)) => pc' = "save"]_vars

\* a run that made all three search calls and returned
C1_Witness == pc = "returned" /\ search_calls = max_iterations /\ iteration = max_iterations

\* C2: a scalar field that is non-empty before an iteration's merge has the
\* same value after it, also when the extraction yields None for it.
C2_ScalarKeptOnceSet ==
  [][IterationDone =>
       \A f \in ScalarFields : Truthy(results[f]) => results'[f] = results[f]]_vars

\* C3: after an iteration's merge a multi-valued field is the union of its
\* previous contents and the extracted contents, so nothing it held is lost.
C3_MultiValuedUnion ==
  [][IterationDone =>
       \A f \in MultiFields :
         Items(results'[f]) =
           Items(results[f]) \cup Items(_extract_insights(search_results', target.name)[f])]_vars

\* C8: when the person or the company is not found, the run ends with the
\* not-found error before any iteration: no search call, no callback message,
\* nothing saved.
C8_NotFoundBeforeLoop ==
  ~(target.person_found /\ target.company_found) =>
    /\ pc \in {"start", "raised"}
    /\ pc = "raised" => exc = "ValueError"
    /\ search_calls = 0
    /\ callback_log = <<>>
    /\ saved = <<>>

\* a run that ended not-found because the company is missing
C8_Witness ==
  pc = "raised" /\ exc = "ValueError" /\ target.person_found /\ ~target.company_found

\* C9: a failure of the search call or of the extraction in an iteration does
\* not leave research_person as an exception.
C9_IterationFailureContained ==
  ~(pc = "raised" /\ exc \in {"SearchError", "AttributeError"})

\* C10: a failure of the final save does not leave research_person as an
\* exception.
C10_SaveFailureContained == ~(pc = "raised" /\ exc = "DBError")

\* the keys a dict holds
HeldKeys(d) == {k \in DOMAIN d : d[k].tag # "absent"}

\* C11: the validated result, which is what is saved and returned, holds only
\* keys among the five required fields, each with a non-empty value, and it
\* holds every required field that is non-empty in the accumulated results
\* with that value: other keys and empty values are discarded.
C11_ValidatedOnlyRequiredNonEmpty ==
  pc \in {"save", "returned"} =>
    /\ HeldKeys(returned) \subseteq Fields
    /\ \A k \in HeldKeys(returned) : Truthy(returned[k]) /\ returned[k] = results[k]
    /\ \A f \in Fields : Truthy(results[f]) => f \in HeldKeys(returned)
    /\ \A n \in 1..Len(saved) : saved[n].payload = returned

\* a returned result from which a foreign key, a None and an empty list were
\* discarded while a found field was kept
C11_Witness ==
  /\ pc = "returned"
  /\ results["notes"] = Str("scratch")
  /\ results["pricing_model"] = NoneV
  /\ results["product_names"] = List({})
  /\ results["company_value_prop"] = Str("found")
  /\ HeldKeys(returned) = {"company_value_prop"}
  /\ Len(saved) = 1

\* C12: the result handed to validation when the loop stops is the one the
\* iterations accumulated, so the returned result holds exactly the non-empty
\* fields the loop found, with the loop's values.
C12_ReturnsLoopFindings ==
  [][(pc = "loop" /\ pc' = "save") => returned' = _validate_results(results)]_vars

\* C13: a run that returns with a progress callback has passed it one more
\* message than it made iterations: a final message, after the last
\* per-iteration one, that reports the fields of the returned result.
C13_TerminalProgressEvent ==
  (pc = "returned" /\ target.has_callback) =>
    /\ Len(callback_log) = iteration + 1
    /\ callback_log[Len(callback_log)].fields_found = HeldKeys(returned)

(***************************************************************************)
(* Properties of the session service (checked under SpecWS, SpecRooms)     *)
(***************************************************************************)
TerminalStatus == {"completed", "error"}
TerminalEvents == {"research_completed", "research_error"}

Last(q) == q[Len(q)]

\* a step that published an event of the given kinds to the room of s
Published(s, kinds) ==
  /\ Len(published'[s]) = Len(published[s]) + 1
  /\ Last(published'[s]).event \in kinds

\* C4: once the snapshot of a session is 'completed' or 'error', no step puts
\* it back to 'starting' or 'in_progress' and no progress_update is published
\* for the session.
C4_TerminalAbsorbing ==
  [][\A s \in Sessions :
       (s \in DOMAIN progress_data /\ progress_data[s].status \in TerminalStatus) =>
         /\ s \in DOMAIN progress_data' => progress_data'[s].status \in TerminalStatus
         /\ ~Published(s, {"progress_update"})]_vars

\* C5: the events published for a session are progress events with strictly
\* increasing steps_completed, and a terminal event is the last event
\* published: nothing follows it, so there is at most one.
C5_OrderedSingleTerminal ==
  \A s \in Sessions :
    LET q == published[s] IN
    /\ \A i \in 1..Len(q) : \A j \in (i + 1)..Len(q) :
         (q[i].event = "progress_update" /\ q[j].event = "progress_update") =>
           q[i].snap.steps_completed < q[j].snap.steps_completed
    /\ \A i \in 1..Len(q) : q[i].event \in TerminalEvents => i = Len(q)

\* the step is the join_research_session handler run for client c, session s
JoinHandled(c, s) ==
  /\ c \in connected
  /\ rooms' = [rooms EXCEPT ![s] = @ \cup {c}]
  /\ active_sessions' = DictSet(active_sessions, c, s)
  /\ UNCHANGED <<progress_data, thread, connected, published, startable, budget>>

\* C6: joining a session whose snapshot is 'completed' or 'error' delivers
\* that snapshot to the joining client as part of the join.
C6_ReplayOnLateJoin ==
  [][\A c \in Clients, s \in Sessions :
       (JoinHandled(c, s) /\ s \in DOMAIN progress_data
          /\ progress_data[s].status \in TerminalStatus) =>
         /\ inbox'[c].event \in TerminalEvents \cup {"progress_update"}
         /\ inbox'[c].snap = progress_data[s]]_vars

\* C7: an event published for session s reaches every client that is a member
\* of room s at that moment and no other client; a client that left or
\* disconnected is in no room.
C7_DeliveredToRoomOnly ==
  /\ [](\A s \in Sessions : rooms[s] \subseteq connected)
  /\ [][\A s \in Sessions :
          Len(published'[s]) > Len(published[s]) =>
            \A c \in Clients :
              IF c \in rooms[s] THEN inbox'[c] = Last(published'[s])
              ELSE inbox'[c] = inbox[c]]_vars

\* c1 is in room s1 and holds the last event published for s1; c2, a member
\* of room s2 only, still holds the acknowledgement of its own join
C7_Witness ==
  /\ "c1" \in rooms["s1"] /\ "c2" \in rooms["s2"] /\ "c2" \notin rooms["s1"]
  /\ published["s1"] # <<>>
  /\ inbox["c1"] = Last(published["s1"])
  /\ inbox["c2"].event = "joined_session"

\* the step is a call of the progress route for session id s
RouteHandled(s) ==
  /\ reply'.code # 0
  /\ reply'.session_id = s
  /\ UNCHANGED <<thread, rooms, active_sessions, connected, published, inbox,
                 startable, budget>>

\* C15: reading the progress of an id that is not in the registry (never
\* started, or cleaned up) yields not-found, and the registry is the same
\* afterwards: no entry is created for the id.
C15_UnknownIdNotFound ==
  [][\A s \in Sessions :
       (RouteHandled(s) /\ s \notin DOMAIN progress_data) =>
         /\ reply'.code = 404 /\ reply'.progress = NotFound
         /\ progress_data' = progress_data]_vars

\* the route answered not-found for s2, which was never started, while s1 is
\* registered and s2 is not
C15_Witness ==
  /\ reply = [code |-> 404, session_id |-> "s2", progress |-> NotFound]
  /\ DOMAIN progress_data = {"s1"}

\* the positions of a run that has not ended
Running == {"entry", "check", "update", "emit", "work", "final_check",
            "final_update", "final_emit"}

\* a step of the background run of s
RunStep(s) ==
  \/ Run_Entry(s) \/ Run_Check(s) \/ Run_Update(s) \/ Run_Emit(s) \/ Run_Work(s)
  \/ Run_FinalCheck(s) \/ Run_FinalUpdate(s) \/ Run_FinalEmit(s)

\* the step registers session s
StartHandled(s) == s \in startable /\ s \notin startable'

\* C14: a cleanup_session(s) step leaves s out of the registry, and a removed
\* id stays out in every later state, whatever its background run does next,
\* so reading its progress yields not-found; cleanup_session on an id that is
\* not in the registry changes nothing.
C14_CleanupIsFinal ==
  /\ [][\A s \in Sessions :
          cleanup_session(s) =>
            /\ get_session_progress(s)' = NotFound
            /\ s \notin DOMAIN progress_data => UNCHANGED vars]_vars
  /\ [][\A s \in Sessions :
          (s \notin startable /\ s \notin DOMAIN progress_data) =>
            get_session_progress(s)' = NotFound]_vars

\* s1 was cleaned up while its run was about to write its next update; the
\* route has answered not-found for it since
C14_Witness ==
  /\ "s1" \notin startable /\ "s1" \notin DOMAIN progress_data
  /\ thread["s1"].pc = "update"
  /\ reply = [code |-> 404, session_id |-> "s1", progress |-> NotFound]

\* C16: the step that starts session s registers an id that was not in the
\* registry, with status 'starting', progress 0, no step completed and no
\* result; the research_started event carries that snapshot and is the first
\* event published for s, the only one of its kind.
C16_StartInsertsInitialSnapshot ==
  /\ [][\A s \in Sessions :
          StartHandled(s) =>
            /\ s \notin DOMAIN progress_data /\ s \in DOMAIN progress_data'
            /\ progress_data'[s].status = "starting"
            /\ progress_data'[s].progress = 0
            /\ progress_data'[s].steps_completed = 0
            /\ progress_data'[s].results = <<>>
            /\ published'[s] = <<Message(s, "research_started", progress_data'[s])>>]_vars
  /\ [](\A s \in Sessions : \A n \in 1..Len(published[s]) :
          published[s][n].event = "research_started" <=> n = 1)

\* the start event of s1, carrying the initial snapshot, followed by the first
\* progress_update of its run
C16_Witness ==
  /\ Len(published["s1"]) = 2
  /\ published["s1"][1].event = "research_started"
  /\ published["s1"][1].snap.status = "starting"
  /\ published["s1"][2].event = "progress_update"

C18_StartDoesNotWait ==
  /\ [][\A s \in Sessions :
          StartHandled(s) =>
            /\ thread'[s] = [pc |-> "entry", i |-> 0]
            /\ progress_data'[s].status = "starting"
            /\ Len(published'[s]) = 1]_vars
  /\ [](\A s \in Sessions : thread[s].pc \in Running => ENABLED RunStep(s))

\* start has returned and the run of s1 has taken steps on its own: the
\* session is in progress, its first update not yet published
C18_Witness ==
  /\ thread["s1"].pc = "emit" /\ thread["s1"].i = 0
  /\ progress_data["s1"].status = "in_progress"
  /\ Len(published["s1"]) = 1
  /\ budget = MaxAdminCalls

\* the step acts on session a: a step of its run or an administrative call
ActsOn(a) ==
  \/ RunStep(a)
  \/ \E patch \in Patches : update_progress(a, patch)
  \/ \E res \in ResultsInputs : complete_research(a, res)
  \/ \E msg \in ErrorMessages : error_research(a, msg)
  \/ cleanup_session(a)

\* C19: a step that acts on session a leaves every other session b as it
\* was: b's registry entry (present or not, and its snapshot), the position
\* of b's run and the events published for b; and b's run, while it has not
\* ended, can always take its next step.
C19_SessionsIsolated ==
  /\ [][\A a \in Sessions : \A b \in Sessions \ {a} :
          ActsOn(a) =>
            /\ (b \in DOMAIN progress_data) = (b \in DOMAIN progress_data')
            /\ b \in DOMAIN progress_data => progress_data'[b] = progress_data[b]
            /\ thread'[b] = thread[b]
            /\ published'[b] = published[b]]_vars
  /\ [](\A b \in Sessions : thread[b].pc \in Running => ENABLED RunStep(b))

\* s1 was marked failed while both runs were going on, and the run of s2
\* has completed on its own with its own two results
C19_Witness ==
  /\ \E n \in 1..Len(published["s1"]) : published["s1"][n].event = "research_error"
  /\ thread["s2"].pc = "done"
  /\ "s2" \in DOMAIN progress_data
  /\ progress_data["s2"].status = "completed"
  /\ progress_data["s2"].results = <<"company_info", "competitive_intel">>
  /\ Last(published["s2"]).event = "research_completed"

\* C20: the step that publishes research_error for s changes only status,
\* current step and error message of the snapshot: the results accumulated
\* so far, the progress and the step counts are the same after it, and the
\* event carries that snapshot.
C20_ErrorKeepsPartialResults ==
  [][\A s \in DOMAIN progress_data :
       Published(s, {"research_error"}) =>
         /\ progress_data'[s].status = "error"
         /\ progress_data'[s].results = progress_data[s].results
         /\ progress_data'[s].progress = progress_data[s].progress
         /\ progress_data'[s].steps_completed = progress_data[s].steps_completed
         /\ progress_data'[s].total_steps = progress_data[s].total_steps
         /\ Last(published'[s]).snap = progress_data'[s]]_vars

\* s1 failed after its run had stored its first result, which the error
\* snapshot and the research_error event still hold
C20_Witness ==
  /\ "s1" \in DOMAIN progress_data
  /\ progress_data["s1"].status = "error"
  /\ progress_data["s1"].results = <<"company_info">>
  /\ Last(published["s1"]) = Message("s1", "research_error", progress_data["s1"])

\* C21: for the results accumulated so far and every extraction the next
\* search can yield, merging the extraction a second time leaves the
\* multi-valued fields as the first merge left them.
C21_MergeTwiceAsOnce ==
  pc = "loop" =>
    \A hits \in SearchResults :
      ~ExtractRaises(hits, target.name) =>
        LET e == _extract_insights(hits, target.name)
            once == DictUpdate(results, e)
            twice == DictUpdate(once, e)
        IN \A f \in MultiFields : Items(twice[f]) = Items(once[f])

\* two merges have been made and both multi-valued fields hold items
C21_Witness ==
  /\ pc = "loop" /\ iteration = 2
  /\ Items(results["product_names"]) # {}
  /\ Items(results["key_competitors"]) # {}

\* C22: after a leave_research_session step for client c and session s, c is
\* not in room s and has no active_sessions entry, and a leave step taken in
\* such a state (a repeated leave, or a leave of a session c never joined)
\* changes neither the rooms nor the table.
C22_LeaveIdempotent ==
  [][\A c \in Clients, s \in Sessions :
       handle_leave_research_session(c, s) =>
         /\ c \notin rooms'[s]
         /\ c \notin DOMAIN active_sessions'
         /\ (c \notin rooms[s] /\ c \notin DOMAIN active_sessions) =>
              (rooms' = rooms /\ active_sessions' = active_sessions)]_vars

\* c1 has left s1, which it never joined or has already left: it is in no
\* room and has no entry, while c2 is still subscribed to s1
C22_Witness ==
  /\ inbox["c1"].event = "left_session" /\ inbox["c1"].session_id = "s1"
  /\ \A s \in Sessions : "c1" \notin rooms[s]
  /\ "c1" \notin DOMAIN active_sessions
  /\ "c2" \in rooms["s1"] /\ "c2" \in DOMAIN active_sessions

\* the field is empty in the dict: not a key, or a falsy value
Missing(res, f) == ~Truthy(res[f])

\* C23: the query of every search call has words; at iteration 0 they are
\* the overview words, and from iteration 1 on they are the template of the
\* first of value proposition, pricing model and competitors that is
\* missing; the 'about products' query with the domain is issued only when
\* none of the three is missing.
C23_QueryByPriority ==
  [][search_calls' # search_calls =>
       /\ query'.words # "" /\ query'.name = target.name
       /\ iteration = 0 =>
            query'.words = "company overview products pricing" /\ ~query'.with_domain
       /\ iteration > 0 =>
            /\ Missing(results, "company_value_prop") =>
                 query'.words = "value proposition mission what does"
            /\ (~Missing(results, "company_value_prop")
                  /\ Missing(results, "pricing_model")) =>
                 query'.words = "pricing plans cost subscription"
            /\ (~Missing(results, "company_value_prop")
                  /\ ~Missing(results, "pricing_model")
                  /\ Missing(results, "key_competitors")) =>
                 query'.words = "competitors alternatives vs"
            /\ query'.with_domain <=>
                 (/\ ~Missing(results, "company_value_prop")
                  /\ ~Missing(results, "pricing_model")
                  /\ ~Missing(results, "key_competitors"))
            /\ query'.with_domain => query'.words = "about products"]_vars

\* the third search was made with the fallback query: after two iterations
\* value proposition, pricing model and competitors were all found
C23_Witness ==
  /\ search_calls = 3
  /\ query = Query(target.name, "about products", TRUE)

\* C24: the run of a session never faults on a removed entry: whenever
\* cleanup_session removes the entry, the run finds it gone at its next
\* access and stops.
C24_RunNeverFaults == \A s \in Sessions : thread[s].pc # "fault"

\* C25: in every per-iteration progress message the fields found and the
\* fields remaining are disjoint and together are the required fields, the
\* n-th message carries iteration number n, and the fields found of the last
\* message are the fields with a non-empty accumulated value.
C25_ProgressPartition ==
  /\ \A n \in 1..Len(callback_log) :
       /\ callback_log[n].fields_found \cap callback_log[n].fields_remaining = {}
       /\ callback_log[n].fields_found \cup callback_log[n].fields_remaining = Fields
       /\ callback_log[n].iteration = n
  /\ (pc = "loop" /\ callback_log # <<>>) =>
       callback_log[Len(callback_log)].fields_found = {f \in Fields : Truthy(results[f])}

\* an administrative call on session id s
CompleteCalled(s) == \E res \in ResultsInputs : complete_research_session(s, res)
ErrorCalled(s) == \E msg \in ErrorMessages : error_research_session(s, msg)
UpdateCalled(s) == \E patch \in Patches : update_progress(s, patch)

\* C26: a complete, error or update call for an id that is not in the
\* registry leaves the registry, every run, the published events and every
\* client's inbox as they were, and the complete and error routes answer
\* normally.
C26_UnknownIdCallsAreNoOps ==
  [][\A s \in Sessions :
       (s \notin DOMAIN progress_data
          /\ (CompleteCalled(s) \/ ErrorCalled(s) \/ UpdateCalled(s))) =>
         /\ UNCHANGED <<progress_data, thread, published, inbox, rooms>>
         /\ (CompleteCalled(s) \/ ErrorCalled(s)) => reply'.code = 200]_vars

\* the complete route was called for s2, which was never started: s1 alone is
\* registered and nothing was published for s2
C26_Witness ==
  /\ reply = [code |-> 200, session_id |-> "s2", message |-> "Research session completed"]
  /\ DOMAIN progress_data = {"s1"}
  /\ published["s2"] = <<>>
  /\ thread["s2"].pc = "idle"

(***************************************************************************)
(* The service with its background threads scheduled: a thread that can    *)
(* take a step (its sleeps are finite) eventually takes it.                *)
(***************************************************************************)
SpecLive == InitSpecWS /\ [][NextWS]_vars /\ \A s \in Sessions : WF_vars(RunStep(s))

\* a terminal event has been published for s
TerminalPublished(s) ==
  \E n \in 1..Len(published[s]) : published[s][n].event \in TerminalEvents

C28_ProgressMonotone ==
  /\ [](\A s \in DOMAIN progress_data : progress_data[s].progress \in 0..100)
  /\ [][\A s \in DOMAIN progress_data :
          s \in DOMAIN progress_data' =>
            progress_data'[s].progress >= progress_data[s].progress]_vars

\* C29: the accumulated results never hold a company_domain, so the loop is
\* never left by its all-fields-found test: a run that has left the loop has
\* made 3 iterations and 3 search calls, with 3 progress messages when there
\* is a callback.
C29_AlwaysThreeIterations ==
  /\ ~Truthy(results["company_domain"]) \/ pc \in {"save", "returned", "raised"}
  /\ pc = "loop" => ~_all_fields_found(results)
  /\ (pc \in {"save", "returned"} \/ (pc = "raised" /\ exc = "DBError")) =>
       /\ iteration = 3 /\ search_calls = 3
       /\ Len(callback_log) = IF target.has_callback THEN 3 ELSE 0

\* the loop is about to be left by its counter with every field but the
\* domain found, three progress messages sent
C29_Witness ==
  /\ pc = "loop" /\ iteration = 3 /\ Len(callback_log) = 3
  /\ \A f \in Fields \ {"company_domain"} : Truthy(results[f])
  /\ _get_missing_fields(results) = {"company_domain"}

\* C30: a client has an active_sessions entry for session s exactly when it
\* is a member of room s.
C30_TableAgreesWithRooms ==
  \A c \in Clients, s \in Sessions :
    (c \in DOMAIN active_sessions /\ active_sessions[c] = s) <=> c \in rooms[s]

====
